---- MODULE Spec2Model ----
(***************************************************************************)
(* Ingestion pipeline of the network-quality worker (schema V3):           *)
(* POST /upload = validation, duplicate lookup, batch commit into the      *)
(* network_logs table of schema.sql.                                       *)
(*                                                                         *)
(* Time is counted in seconds (the worker counts milliseconds; every       *)
(* duration of the worker is a whole number of seconds).                   *)
(***************************************************************************)
EXTENDS Integers, Sequences, FiniteSets, TLC

(***************************************************************************)
(* Bounds of the model.                                                    *)
(***************************************************************************)
MaxBatchLen == 2
MaxTicks == 2

\* The concurrent execution contexts of the worker (one request each).
Requests == {"a", "b"}

(***************************************************************************)
(* JavaScript values, as far as the handlers look at them.                 *)
(***************************************************************************)
JsUndef == [k |-> "undefined", v |-> 0]
JsNull == [k |-> "null", v |-> 0]
JsNum(n) == [k |-> "number", v |-> n]
\* a string, v its length
JsStr(n) == [k |-> "string", v |-> n]

\* typeof x === 'object' is true of objects, arrays and null
TypeofObject(x) == x.k \in {"object", "array", "null"}

\* x ?? null
Coalesce(x) == IF x.k = "undefined" THEN JsNull ELSE x

\* result of Date.getTime() for an unparsable string
NaN == -1

(***************************************************************************)
(* CONFIG and the window of isValidTimestamp.                              *)
(***************************************************************************)
SCHEMA_VERSION == 3
MAX_BATCH_SIZE == 100
OneYear == 365 * 24 * 60 * 60
OneHour == 60 * 60

\* the server clock when the model starts
Now0 == 40000000

\* new Date(timestamp).getTime(): a timestamp string is the instant it
\* denotes (NaN when it denotes none) and the way it is written
DateParse(timestamp) == timestamp.t

\* the window with its two ends left out
isValidTimestampExclusive(timestamp, clock) ==
    LET date == DateParse(timestamp)
        oneYearAgo == clock - OneYear
        oneHourFuture == clock + OneHour
    IN  date # NaN /\ date > oneYearAgo /\ date < oneHourFuture

\* isValidTimestamp, with clock the value of Date.now()
isValidTimestamp(timestamp, clock) ==
    LET date == DateParse(timestamp)
        oneYearAgo == clock - OneYear
        oneHourFuture == clock + OneHour
    IN  date # NaN /\ date >= oneYearAgo /\ date <= oneHourFuture

\* isValidEntry: a null or non-object entry, then the members one by one
isValidEntry(e, clock) ==
    /\ e.k = "object"
    /\ e.timestamp.k = "string"
    /\ isValidTimestamp(e.timestamp, clock)
    /\ e.networkquality.k # "undefined"
    /\ TypeofObject(e.networkquality)
    /\ e.speedtest.k # "undefined"
    /\ TypeofObject(e.speedtest)
    /\ e.ping_results.k = "array"
    /\ e.curl_results.k = "array"
    /\ e.mtr_results.k = "array"
    /\ e.dns_results.k = "array"


(***************************************************************************)
(* The entries of a batch (NetworkLogEntry, as isp-speed.sh assembles it). *)
(***************************************************************************)
\* a timestamp string: the instant t it denotes, written in form f: 0 is the
\* form ending in Z of isp-speed.sh, f > 0 the local time f hours east of UTC
\* followed by its offset (+0f:00)
TsString(t, f) == [k |-> "string", t |-> t, f |-> f]
\* a timestamp that is a JSON number
TsNumber(t) == [k |-> "number", t |-> t, f |-> 0]

NoFields == [download_mbps |-> JsUndef, upload_mbps |-> JsUndef,
             responsiveness_rpm |-> JsUndef, ping_ms |-> JsUndef,
             server_location |-> JsUndef, server_country |-> JsUndef]

\* a member that is an object with some of the fields set
Obj(fields) == [k |-> "object", f |-> fields]
\* a member that is absent, null, or a string
NonObj(kind) == [k |-> kind, f |-> NoFields]

NqFields(d, u, r) == [NoFields EXCEPT !.download_mbps = d, !.upload_mbps = u,
                                      !.responsiveness_rpm = r]
StFields(d, u, p) == [NoFields EXCEPT !.download_mbps = d, !.upload_mbps = u,
                                      !.ping_ms = p]

\* one EndpointResult; loss stands for the bounded field of the variant
\* (packet_loss_percent of a ping result)
Endpoint(id, name, loss) == [id |-> id, name |-> name, packet_loss_percent |-> loss]
Arr(items) == [k |-> "array", items |-> items]
NonArr(kind) == [k |-> kind, items |-> <<>>]

\* JSON.stringify of an array: a string holding the elements, the absent
\* members left out (an absent member is JsUndef here already)
JSONstringify(a) == [k |-> "string", text |-> a.items]

GoodNq == Obj(NqFields(JsNum(100), JsNum(20), JsNum(1000)))
EmptySt == Obj(NoFields)
GoodEndpoint == Endpoint(JsStr(2), JsStr(10), JsNum(0))

BaseEntry(ts) ==
    [k |-> "object", timestamp |-> ts, networkquality |-> GoodNq,
     speedtest |-> EmptySt, ping_results |-> Arr(<<GoodEndpoint>>),
     curl_results |-> Arr(<<>>), mtr_results |-> Arr(<<>>),
     dns_results |-> Arr(<<>>)]

(***************************************************************************)
(* The store: table network_logs of schema.sql, a sequence of rows (the    *)
(* AUTOINCREMENT id of a row is its position, created_at the time of its   *)
(* insert).  Column by is not a column of the table: it records the        *)
(* request whose batch inserted the row.                                   *)
(***************************************************************************)
VARIABLES store, req, now, qry, cache, hlth, col, buf

\* the last answers of GET /api/logs and GET /health, and the edge cache
readVars == <<qry, cache, hlth>>

\* the collector (isp-speed.sh) and the files of its buffer directory
sendVars == <<col, buf>>

vars == <<store, req, now, readVars, sendVars>>

\* INSERT_SQL with the values handleUpload binds
InsertRow(entry, r) ==
    [timestamp |-> entry.timestamp,
     schema_version |-> SCHEMA_VERSION,
     nq_download_mbps |-> entry.networkquality.f.download_mbps,
     nq_upload_mbps |-> entry.networkquality.f.upload_mbps,
     nq_responsiveness_rpm |-> entry.networkquality.f.responsiveness_rpm,
     st_download_mbps |-> Coalesce(entry.speedtest.f.download_mbps),
     st_upload_mbps |-> Coalesce(entry.speedtest.f.upload_mbps),
     st_ping_ms |-> Coalesce(entry.speedtest.f.ping_ms),
     st_server_location |-> Coalesce(entry.speedtest.f.server_location),
     st_server_country |-> Coalesce(entry.speedtest.f.server_country),
     ping_results |-> JSONstringify(entry.ping_results),
     curl_results |-> JSONstringify(entry.curl_results),
     mtr_results |-> JSONstringify(entry.mtr_results),
     dns_results |-> JSONstringify(entry.dns_results),
     created_at |-> now,
     by |-> r]

\* reading a property of null throws a TypeError (destructuring succeeds,
\* networkquality.download_mbps and speedtest.download_mbps do not)
BindThrows(entry) ==
    \/ entry.networkquality.k = "null"
    \/ entry.speedtest.k = "null"

\* CHECK(col IS NULL OR col >= 0)
CheckNonNegative(column) ==
    column.k = "null" \/ (column.k = "number" /\ column.v >= 0)

RowChecks(row) ==
    /\ CheckNonNegative(row.nq_download_mbps)
    /\ CheckNonNegative(row.nq_upload_mbps)
    /\ CheckNonNegative(row.nq_responsiveness_rpm)
    /\ CheckNonNegative(row.st_download_mbps)
    /\ CheckNonNegative(row.st_upload_mbps)
    /\ CheckNonNegative(row.st_ping_ms)

\* the timestamp column without its UNIQUE constraint
TimestampNotUnique(table, row) == TRUE

\* timestamp TEXT NOT NULL UNIQUE: the text of the timestamp is the key
TimestampUnique(table, row) ==
    \A i \in 1..Len(table) : table[i].timestamp # row.timestamp

\* CHECK_DUPLICATE_SQL: SELECT COUNT(*) ... WHERE timestamp = ?
CheckDuplicate(table, timestamp) ==
    Cardinality({i \in 1..Len(table) : table[i].timestamp = timestamp})


(***************************************************************************)
(* env.DB.batch(statements): the statements run in order in one            *)
(* transaction; the first one the table refuses rolls the whole batch      *)
(* back and the call throws.                                               *)
(***************************************************************************)
Refusal(table, row) ==
    IF ~TimestampUnique(table, row) THEN "unique"
    ELSE IF ~RowChecks(row) THEN "check"
    ELSE "none"

\* every row is checked against the table as it was before the batch
RunStatementsSnapshot(table, rows) ==
    LET refused == {i \in 1..Len(rows) : Refusal(table, rows[i]) # "none"}
        first == CHOOSE i \in refused : \A j \in refused : i <= j
    IN  IF refused = {} THEN [table |-> table \o rows, refusal |-> "none"]
        ELSE [table |-> table, refusal |-> Refusal(table, rows[first])]

RECURSIVE RunStatements(_, _)
\* the table after the rows are inserted in order, up to the first refusal
RunStatements(table, rows) ==
    IF rows = <<>> THEN [table |-> table, refusal |-> "none"]
    ELSE IF Refusal(table, Head(rows)) # "none"
         THEN [table |-> table, refusal |-> Refusal(table, Head(rows))]
         ELSE RunStatements(Append(table, Head(rows)), Tail(rows))

RECURSIVE RunIgnoring(_, _)
\* the table after the rows the store can take are inserted in order
RunIgnoring(table, rows) ==
    IF rows = <<>> THEN table
    ELSE IF Refusal(table, Head(rows)) # "none"
         THEN RunIgnoring(table, Tail(rows))
         ELSE RunIgnoring(Append(table, Head(rows)), Tail(rows))

\* the statements as INSERT OR IGNORE: a refused row is skipped in silence
DBbatchIgnore(table, rows) ==
    [table |-> RunIgnoring(table, rows), refusal |-> "none"]

RECURSIVE RunReplacing(_, _)
\* the table after each row took the place of the row of its timestamp
RunReplacing(table, rows) ==
    IF rows = <<>> THEN table
    ELSE RunReplacing(
            Append(SelectSeq(table,
                       LAMBDA x : x.timestamp # Head(rows).timestamp),
                   Head(rows)),
            Tail(rows))

\* the statements as INSERT OR REPLACE
DBbatchReplace(table, rows) ==
    [table |-> RunReplacing(table, rows), refusal |-> "none"]

\* the statements run one by one outside a transaction
DBbatchNoRollback(table, rows) == RunStatements(table, rows)

DBbatch(table, rows) ==
    LET run == RunStatements(table, rows)
    IN  IF run.refusal = "none" THEN run
        ELSE [table |-> table, refusal |-> run.refusal]

(***************************************************************************)
(* The requests.  pc is the await a request stands at:                     *)
(*   "idle"    not received yet                                            *)
(*   "lookup"  awaiting Promise.all of the duplicate checks                *)
(*   "commit"  awaiting env.DB.batch                                       *)
(*   "done"    answered                                                    *)
(* root is what the body decoded to ("array", another kind of value, or    *)
(* "invalid json"), batch the elements of the array.                       *)
(* method, path and xid (the X-Request-ID header) are those of the         *)
(* request; request_id is the requestId fetch made for it.                 *)
(* status, error, details, count are the answer (count: the number in it). *)
(* cause, pre and after are not state of the worker: cause records what    *)
(* made the handler throw, pre the timestamps persisted, after the         *)
(* requests answered and at the server clock when the request was received.*)
(***************************************************************************)
Pending == -1

\* a request id: req_<time>_<suffix>, the time in seconds or milliseconds
RequestId(time, ms, suffix) ==
    [prefix |-> "req", time |-> time, ms |-> ms, suffix |-> suffix]

\* no request id
NoRequestId == [prefix |-> "", time |-> 0, ms |-> FALSE, suffix |-> ""]

Idle == [pc |-> "idle", root |-> "", batch |-> <<>>, checks |-> <<>>, status |-> 0,
         error |-> "", count |-> 0, cause |-> "", pre |-> {}, after |-> {},
         at |-> 0, method |-> "", path |-> "", xid |-> NoRequestId,
         request_id |-> NoRequestId, details |-> ""]

Statements(batch, r) == [i \in 1..Len(batch) |-> InsertRow(batch[i], r)]

\* the rows of the table
Rows(table) == {table[i] : i \in 1..Len(table)}

Persisted(table) == {table[i].timestamp : i \in 1..Len(table)}

Answered == {r \in Requests : req[r].pc = "done"}

Answer(q, status, error, count, cause) ==
    [q EXCEPT !.pc = "done", !.status = status, !.error = error,
              !.count = count, !.cause = cause]

\* only the first entry is validated
ValidEntriesFirstOnly(batch, clock) ==
    IF isValidEntry(batch[1], clock) THEN batch ELSE Tail(batch)

\* entries.filter(isValidEntry)
ValidEntries(batch, clock) ==
    SelectSeq(batch, LAMBDA e : isValidEntry(e, clock))

\* the bodies a client may send: the arrays of 1..MaxBatchLen entries of pool
Batches(pool) == UNION {[1..n -> pool] : n \in 1..MaxBatchLen}

\* a body that does not parse
InvalidJson == [k |-> "invalid json", items |-> <<>>]

\* the size check taking a batch of MAX_BATCH_SIZE entries for too large
BodyErrorInclusive(body) ==
    IF body.k = "invalid json" THEN "Invalid JSON in request body"
    ELSE IF body.k # "array" THEN "Request body must be an array"
    ELSE IF Len(body.items) = 0 THEN "Request body must contain at least one entry"
    ELSE IF Len(body.items) >= MAX_BATCH_SIZE THEN "Batch size exceeds maximum"
    ELSE ""

\* the checks of the body before the entries are looked at: request.json(),
\* Array.isArray, length 0, length > MAX_BATCH_SIZE; "" when the body passes
BodyError(body) ==
    IF body.k = "invalid json" THEN "Invalid JSON in request body"
    ELSE IF body.k # "array" THEN "Request body must be an array"
    ELSE IF Len(body.items) = 0 THEN "Request body must contain at least one entry"
    ELSE IF Len(body.items) > MAX_BATCH_SIZE THEN "Batch size exceeds maximum"
    ELSE ""

\* handleUpload up to its first await: the checks of the parsed body and the
\* validation of the entries; the duplicate checks are issued
Accepted(q0, body) ==
    LET batch == body.items
        validEntries == ValidEntries(batch, now)
        q == [q0 EXCEPT !.root = body.k, !.batch = batch,
                        !.pre = Persisted(store),
                        !.after = Answered, !.at = now]
    IN  IF BodyError(body) # ""
        THEN Answer(q, 400, BodyError(body), 0, "")
        ELSE IF Len(validEntries) # Len(batch)
        THEN Answer(q, 400, "Invalid entry format",
                    Len(batch) - Len(validEntries), "")
        ELSE [q EXCEPT !.pc = "lookup",
                       !.checks = [i \in 1..Len(batch) |-> Pending]]

\* POST /upload with body arrives for request r (its ids are left out)
Accept(r, body) == req' = [req EXCEPT ![r] = Accepted(req[r], body)]

\* a request with an array of 1..MaxBatchLen entries of pool is received
Receive(r, pool) ==
    /\ req[r].pc = "idle"
    /\ \E batch \in Batches(pool) : Accept(r, Arr(batch))
    /\ UNCHANGED <<store, now, readVars, sendVars>>

\* a request with one of the bodies is received
ReceiveBody(r, bodies) ==
    /\ req[r].pc = "idle"
    /\ \E body \in bodies : Accept(r, body)
    /\ UNCHANGED <<store, now, readVars, sendVars>>

\* the store answers one duplicate check
Lookup(r, i) ==
    /\ req[r].pc = "lookup"
    /\ i \in 1..Len(req[r].batch)
    /\ req[r].checks[i] = Pending
    /\ req' = [req EXCEPT ![r].checks[i] =
                  CheckDuplicate(store, req[r].batch[i].timestamp)]
    /\ UNCHANGED <<store, now, readVars, sendVars>>

\* the store fails one duplicate check: Promise.all rejects, the catch answers
LookupFails(r, i) ==
    /\ req[r].pc = "lookup"
    /\ i \in 1..Len(req[r].batch)
    /\ req[r].checks[i] = Pending
    /\ req' = [req EXCEPT ![r] =
                  Answer(req[r], 500, "Database operation failed", 0, "lookup")]
    /\ UNCHANGED <<store, now, readVars, sendVars>>

\* a count of one is not taken for a duplicate
DuplicatesNone(checks) == {i \in 1..Len(checks) : checks[i] > 1}

\* only the last lookup is looked at
DuplicatesLastOnly(checks) == {i \in {Len(checks)} : checks[i] > 0}

\* only the first lookup is looked at
DuplicatesFirstOnly(checks) == {i \in {1} : checks[i] > 0}

\* duplicateChecks.filter((result) => result?.count && result.count > 0)
Duplicates(checks) == {i \in 1..Len(checks) : checks[i] > 0}

\* the lookups as Promise.race: the first answer settles the promise
PromiseRaceResolved(checks) == \E i \in 1..Len(checks) : checks[i] # Pending

\* await Promise.all(duplicateChecks) resolves when every lookup has answered
PromiseAllResolved(checks) == \A i \in 1..Len(checks) : checks[i] # Pending

\* Promise.all resolved: the duplicates are counted, the statements are bound
\* and the batch is issued
Decide(r) ==
    /\ req[r].pc = "lookup"
    /\ PromiseAllResolved(req[r].checks)
    /\ LET duplicates == Duplicates(req[r].checks)
       IN  IF Cardinality(duplicates) > 0
           THEN req' = [req EXCEPT ![r] =
                   Answer(req[r], 409, "duplicate timestamps rejected",
                          Cardinality(duplicates), "")]
           ELSE IF \E i \in 1..Len(req[r].batch) : BindThrows(req[r].batch[i])
           THEN req' = [req EXCEPT ![r] =
                   Answer(req[r], 500, "Database operation failed", 0, "type")]
           ELSE req' = [req EXCEPT ![r].pc = "commit"]
    /\ UNCHANGED <<store, now, readVars, sendVars>>

\* the store runs the batch: all rows are inserted, or none and the catch answers
Commit(r) ==
    /\ req[r].pc = "commit"
    /\ LET run == DBbatch(store, Statements(req[r].batch, r))
       IN  IF run.refusal = "none"
           THEN /\ store' = run.table
                /\ req' = [req EXCEPT ![r] =
                      Answer(req[r], 200, "", Len(req[r].batch), "")]
           ELSE /\ store' = run.table
                /\ req' = [req EXCEPT ![r] =
                      Answer(req[r], 500, "Database operation failed", 0, run.refusal)]
    /\ UNCHANGED <<now, readVars, sendVars>>

\* the store is unavailable when the batch arrives
CommitFails(r) ==
    /\ req[r].pc = "commit"
    /\ req' = [req EXCEPT ![r] =
                  Answer(req[r], 500, "Database operation failed", 0, "fault")]
    /\ UNCHANGED <<store, now, readVars, sendVars>>


(***************************************************************************)
(* The reads: GET /api/logs and GET /health.                               *)
(***************************************************************************)
CACHE_TTL_SECONDS == 60
MAX_QUERY_LIMIT == 10000
DEFAULT_QUERY_LIMIT == 1000

\* url.searchParams.get('limit'): null, or a string as its characters
NoParam == [k |-> "null", s |-> <<>>]
Param(s) == [k |-> "string", s |-> s]

\* a number of JavaScript: <<n>> is the number n and <<>> is NaN
DigitOf ==
    [c \in {"0", "1", "2", "3", "4", "5", "6", "7", "8", "9"} |->
        CASE c = "0" -> 0 [] c = "1" -> 1 [] c = "2" -> 2 [] c = "3" -> 3
          [] c = "4" -> 4 [] c = "5" -> 5 [] c = "6" -> 6 [] c = "7" -> 7
          [] c = "8" -> 8 [] c = "9" -> 9]

RECURSIVE ReadDigits(_, _)
\* the number of the longest run of digits s starts with, after acc
ReadDigits(s, acc) ==
    IF s = <<>> \/ Head(s) \notin DOMAIN DigitOf THEN acc
    ELSE ReadDigits(Tail(s),
            << (IF acc = <<>> THEN 0 ELSE acc[1]) * 10 + DigitOf[Head(s)] >>)

RECURSIVE parseInt(_)
\* parseInt(s, 10): leading blanks, a sign, digits up to the first character
\* that is none; NaN without a digit
parseInt(s) ==
    IF s = <<>> THEN <<>>
    ELSE IF Head(s) = " " THEN parseInt(Tail(s))
    ELSE IF Head(s) = "-"
         THEN [i \in DOMAIN ReadDigits(Tail(s), <<>>) |->
                    0 - ReadDigits(Tail(s), <<>>)[i]]
    ELSE IF Head(s) = "+" THEN ReadDigits(Tail(s), <<>>)
    ELSE ReadDigits(s, <<>>)

isNaN(x) == x = <<>>
MathMax(x, y) ==
    IF isNaN(x) \/ isNaN(y) THEN <<>> ELSE IF x[1] >= y[1] THEN x ELSE y
MathMin(x, y) ==
    IF isNaN(x) \/ isNaN(y) THEN <<>> ELSE IF x[1] <= y[1] THEN x ELSE y

\* a string is truthy when it is not empty, null is not
Truthy(limitParam) == limitParam.k = "string" /\ limitParam.s # <<>>

\* the limit without the lower end of the clamp
EffectiveLimitNoFloor(limitParam) ==
    IF Truthy(limitParam)
    THEN MathMin(parseInt(limitParam.s), <<MAX_QUERY_LIMIT>>)
    ELSE <<DEFAULT_QUERY_LIMIT>>

\* const limit = limitParam ? Math.min(Math.max(parseInt(..), 1), MAX) : DEFAULT
EffectiveLimit(limitParam) ==
    IF Truthy(limitParam)
    THEN MathMin(MathMax(parseInt(limitParam.s), <<1>>), <<MAX_QUERY_LIMIT>>)
    ELSE <<DEFAULT_QUERY_LIMIT>>

\* limitParam && isNaN(parseInt(limitParam, 10))
InvalidLimit(limitParam) == Truthy(limitParam) /\ isNaN(parseInt(limitParam.s))

\* the order of the TEXT column timestamp: the strings compare character by
\* character, that is by the date and time they show and then by what
\* follows it, where "+" sorts before "Z"
LocalTime(timestamp) == timestamp.t + timestamp.f * OneHour
TextLess(a, b) ==
    \/ LocalTime(a) < LocalTime(b)
    \/ /\ LocalTime(a) = LocalTime(b)
       /\ a.f # 0
       /\ (b.f = 0 \/ a.f < b.f)

RECURSIVE OrderDesc(_)
\* ORDER BY timestamp DESC
OrderDesc(rows) ==
    IF rows = {} THEN <<>>
    ELSE LET first == CHOOSE x \in rows :
                        \A y \in rows \ {x} : TextLess(y.timestamp, x.timestamp)
         IN  <<first>> \o OrderDesc(rows \ {first})

\* SELECT * FROM network_logs ORDER BY timestamp DESC LIMIT ?  (a negative
\* LIMIT is no limit)
SelectLogs(table, limit) ==
    LET all == OrderDesc(Rows(table))
    IN  IF limit < 0 \/ limit >= Len(all) THEN all ELSE SubSeq(all, 1, limit)

\* the answer of GET /api/logs; hit is its X-Cache header.  read, seen,
\* readAt, from and at are not state of the worker: read tells that the
\* store was accessed, seen holds the rows of the store when it was read,
\* readAt the time the rows were read from the store, from the limit of
\* the read a cached answer was made by and at the time of the request.
NoQuery ==
    [status |-> 0, error |-> "", param |-> NoParam, limit |-> <<>>,
     rows |-> <<>>, hit |-> FALSE, read |-> FALSE, seen |-> {},
     readAt |-> 0, from |-> <<>>, at |-> 0]

\* handleGetLogs: the range of the limit, the check of the limit, the read
LogsResponse(limitParam, success) ==
    LET limit == EffectiveLimit(limitParam)
        q == [NoQuery EXCEPT !.param = limitParam, !.limit = limit, !.at = now]
    IN  IF InvalidLimit(limitParam)
        THEN [q EXCEPT !.status = 400, !.error = "Invalid limit parameter"]
        ELSE IF ~success
        THEN [q EXCEPT !.status = 500, !.read = TRUE,
                       !.error = "Failed to retrieve logs"]
        ELSE [q EXCEPT !.status = 200, !.read = TRUE,
                       !.rows = SelectLogs(store, limit[1]),
                       !.seen = Rows(store), !.readAt = now]

\* GET /api/logs arrives with one of params; the read succeeds or fails
GetLogs(params) ==
    /\ \E limitParam \in params, success \in BOOLEAN :
         /\ InvalidLimit(limitParam) => success
         /\ qry' = LogsResponse(limitParam, success)
    /\ UNCHANGED <<store, req, now, cache, hlth, sendVars>>

\* a cached response that stays fresh at the age of its max-age
FreshInclusive(entry, clock) == clock - entry.at <= CACHE_TTL_SECONDS

\* a response cached with Cache-Control: public, max-age=60 is matched while
\* its age is below its max-age
Fresh(entry, clock) == clock - entry.at < CACHE_TTL_SECONDS

\* cacheUrl: the URL of the request, query string included, with the
\* pathname /cache/logs_${limit}
CacheUrl(limit, limitParam) == [limit |-> limit, search |-> limitParam]

\* handleGetLogs of the first generation of the worker: the answer comes
\* from caches.default when it holds a fresh response under cacheUrl, and
\* else from the store and is put into the cache.  (A limit that does not
\* parse is bound as NaN; such requests are left out.)
GetLogsCached(params) ==
    /\ \E limitParam \in params, success \in BOOLEAN :
         LET limit == EffectiveLimit(limitParam)
             cacheUrl == CacheUrl(limit, limitParam)
             matches == {e \in cache : e.url = cacheUrl /\ Fresh(e, now)}
             q == [NoQuery EXCEPT !.param = limitParam, !.limit = limit,
                                  !.at = now]
         IN  /\ ~isNaN(limit)
             /\ IF matches # {}
                THEN /\ success
                     /\ \E e \in matches :
                          qry' = [q EXCEPT !.status = 200, !.hit = TRUE,
                                           !.rows = e.rows, !.seen = e.seen,
                                           !.readAt = e.at,
                                           !.from = e.url.limit]
                     /\ cache' = cache
                ELSE IF ~success
                THEN /\ qry' = [q EXCEPT !.status = 500, !.read = TRUE,
                                         !.error = "Failed to retrieve logs"]
                     /\ cache' = cache
                ELSE /\ qry' = [q EXCEPT !.status = 200, !.read = TRUE,
                                         !.rows = SelectLogs(store, limit[1]),
                                         !.seen = Rows(store), !.readAt = now]
                     /\ cache' = {e \in cache : e.url # cacheUrl} \cup
                                 {[url |-> cacheUrl, at |-> now,
                                   rows |-> SelectLogs(store, limit[1]),
                                   seen |-> Rows(store)]}
    /\ UNCHANGED <<store, req, now, hlth, sendVars>>

\* the cache drops a response before it expires
Evict ==
    /\ \E e \in cache : cache' = cache \ {e}
    /\ UNCHANGED <<store, req, now, qry, hlth, sendVars>>

\* what SELECT 1 as test can give handleHealth: the row {test: 1}, a
\* result without test === 1 (first() gives null without a row), or a throw
ProbeOutcomes == {"row", "null", "throw"}

\* handleHealth, on the outcome of the probe
HealthResponse(outcome) ==
    LET database == IF outcome = "row" THEN "healthy" ELSE "unhealthy"
        state == IF outcome = "throw" THEN "degraded" ELSE "healthy"
    IN  [status |-> IF state = "healthy" THEN 200 ELSE 503,
         state |-> state, database |-> database,
         schema_version |-> SCHEMA_VERSION]

NoHealth == [status |-> 0, state |-> "", database |-> "", schema_version |-> 0]

Health ==
    /\ \E outcome \in ProbeOutcomes : hlth' = HealthResponse(outcome)
    /\ UNCHANGED <<store, req, now, qry, cache, sendVars>>

\* time passes, up to one of the instants
Advance(instants) ==
    /\ \E t \in instants : t > now /\ now' = t
    /\ UNCHANGED <<store, req, readVars, sendVars>>


\* generateRequestId: req_${Date.now()}_${Math.random().toString(36)...}
generateRequestId(clock, random) == RequestId(clock, TRUE, random)

\* REQUEST_ID of isp-speed.sh: req_${START_TIME}_$
ClientRequestId(clock) == RequestId(clock, FALSE, "$")

\* what Math.random().toString(36).substr(2, 9) gives
Randoms == {"k3x9q2m1z", "a0b1c2d3e"}

\* only /upload has its method checked
MethodAllowedUploadOnly(path, method) == path = "/upload" => method = "POST"

\* the method checks of the switch of fetch
MethodAllowed(path, method) ==
    /\ path = "/upload" => method = "POST"
    /\ path = "/api/logs" => method = "GET"

\* fetch: the request id is made, OPTIONS is answered, the path is routed
\* and the method checked; POST /upload goes into handleUpload up to its
\* first await, /api/logs into handleGetLogs and /health into handleHealth.
\* A request is [method, path, xid, body, limit].
Fetch(r, requests) ==
    /\ req[r].pc = "idle"
    /\ \E request \in requests, random \in Randoms,
          outcome \in ProbeOutcomes :
         LET requestId == generateRequestId(now, random)
             q == [req[r] EXCEPT !.method = request.method,
                                 !.path = request.path,
                                 !.xid = request.xid, !.at = now,
                                 !.pre = Persisted(store)]
             id == [q EXCEPT !.request_id = requestId]
         IN  IF request.method = "OPTIONS"
             THEN /\ req' = [req EXCEPT ![r] = Answer(q, 200, "", 0, "")]
                  /\ UNCHANGED <<qry, hlth>>
             ELSE IF ~MethodAllowed(request.path, request.method)
             THEN /\ req' = [req EXCEPT ![r] =
                         Answer(id, 405, "Method not allowed", 0, "")]
                  /\ UNCHANGED <<qry, hlth>>
             ELSE IF request.path = "/upload"
             THEN /\ req' = [req EXCEPT ![r] = Accepted(id, request.body)]
                  /\ UNCHANGED <<qry, hlth>>
             ELSE IF request.path = "/api/logs"
             THEN /\ qry' = LogsResponse(request.limit, outcome = "row")
                  /\ req' = [req EXCEPT ![r] =
                         Answer(IF qry'.status = 200 THEN q ELSE id,
                                qry'.status, qry'.error, 0, "")]
                  /\ hlth' = hlth
             ELSE IF request.path = "/health"
             THEN /\ hlth' = HealthResponse(outcome)
                  /\ req' = [req EXCEPT ![r] =
                         Answer(q, hlth'.status, "", 0, "")]
                  /\ qry' = qry
             ELSE /\ req' = [req EXCEPT ![r] = Answer(q, 200, "", 0, "asset")]
                  /\ UNCHANGED <<qry, hlth>>
    /\ UNCHANGED <<store, now, cache, sendVars>>

(***************************************************************************)
(* The collector: one run of isp-speed.sh is a cycle.  pc is the place of  *)
(* the script:                                                             *)
(*   "off"      between two runs                                           *)
(*   "measure"  started, the tests are about to run                        *)
(*   "flush"    in upload() for a file of the buffer directory             *)
(*   "current"  in upload() for the entry of this run                      *)
(* file is the file upload() was called with, attempt and backoff its      *)
(* locals, todo the buffer files the for loop has still to visit.  codes   *)
(* and waits are not state of the script: they record the HTTP codes and   *)
(* the sleeps of the upload in progress, last those of the upload that     *)
(* returned last, with its return value.                                   *)
(***************************************************************************)
MAX_UPLOAD_RETRIES == 3
INITIAL_BACKOFF == 2
MaxCycles == 2

\* who inserted a row the collector sent
Collector == "c"

NoFile == [name |-> 0, batch |-> <<>>, buffered |-> FALSE]
NoUpload == [file |-> NoFile, codes |-> <<>>, waits |-> <<>>, ret |-> -1]

Off ==
    [pc |-> "off", cycle |-> 0, timestamp |-> TsString(Now0, 0),
     entry |-> <<>>, todo |-> <<>>, file |-> NoFile, attempt |-> 0,
     backoff |-> 0, codes |-> <<>>, waits |-> <<>>, last |-> NoUpload]

\* handleUpload run from the request to the answer with no other request
\* in between: the answer and the table it leaves
HandleUpload(table, body, r) ==
    LET batch == body.items
        checks == [i \in 1..Len(batch) |->
                      CheckDuplicate(table, batch[i].timestamp)]
        run == DBbatch(table, Statements(batch, r))
    IN  IF BodyError(body) # "" THEN [code |-> 400, table |-> table]
        ELSE IF Len(ValidEntries(batch, now)) # Len(batch)
        THEN [code |-> 400, table |-> table]
        ELSE IF Cardinality(Duplicates(checks)) > 0
        THEN [code |-> 409, table |-> table]
        ELSE IF \E i \in 1..Len(batch) : BindThrows(batch[i])
        THEN [code |-> 500, table |-> table]
        ELSE IF run.refusal # "none" THEN [code |-> 500, table |-> table]
        ELSE [code |-> 200, table |-> run.table]

\* what can happen to a request of curl: "none" nothing, "unreachable" the
\* request does not arrive, "store" the store fails and the handler answers
\* 500, "lost" the request is handled and the answer does not arrive within
\* --max-time.  curl writes 000 for the code of an answer it did not get.
Faults == {"none", "unreachable", "store", "lost"}

Curl(table, body, fault) ==
    CASE fault = "unreachable" -> [code |-> 0, table |-> table]
      [] fault = "store" -> [code |-> 500, table |-> table]
      [] fault = "lost" ->
            [code |-> 0, table |-> HandleUpload(table, body, Collector).table]
      [] OTHER -> HandleUpload(table, body, Collector)

\* only 200 ends the loop of upload()
DeliveredOnly200(code) == code = 200

\* the cases of upload() that return 0
Delivered(code) == code \in {200, 409}

\* the backoff is not doubled
NextBackoffFlat(backoff) == backoff

\* backoff=$((backoff * 2))
NextBackoff(backoff) == backoff * 2

\* [ $attempt -lt $MAX_UPLOAD_RETRIES ] && sleep $backoff
Sleeps(attempt) == attempt < MAX_UPLOAD_RETRIES

RECURSIVE Glob(_)
\* "$BUFFER_DIR"/buffer_*.json: the files in the order of their names
Glob(files) ==
    IF files = {} THEN <<>>
    ELSE LET first == CHOOSE f \in files : \A g \in files : f.name <= g.name
         IN  <<first>> \o Glob(files \ {first})

\* cp "$file" "$buf", with buf="$BUFFER_DIR/buffer_$(date +%s)_$.json"
Copy(files, file, clock) ==
    {f \in files : f.name # clock} \cup
    {[name |-> clock, batch |-> file.batch, buffered |-> TRUE]}

\* the file stays in the buffer directory
RemoveNothing(files, file) == files

\* rm "$buf" of the flush loop
Remove(files, file) == files \ {file}

\* upload() is entered with file
Enter(c, file) ==
    [c EXCEPT !.file = file, !.attempt = 1, !.backoff = INITIAL_BACKOFF,
              !.codes = <<>>, !.waits = <<>>]

\* the script after the tests, and after a return of upload(): the next
\* file of the for loop, then the entry of this run, then the end
Proceed(c) ==
    IF c.todo # <<>>
    THEN Enter([c EXCEPT !.pc = "flush", !.todo = Tail(c.todo)], Head(c.todo))
    ELSE IF c.pc # "current"
    THEN Enter([c EXCEPT !.pc = "current"],
               [name |-> 0, batch |-> c.entry, buffered |-> FALSE])
    ELSE [c EXCEPT !.pc = "off", !.file = NoFile, !.attempt = 0,
                   !.backoff = 0, !.codes = <<>>, !.waits = <<>>]

\* cron starts the script an hour after the last run: TIMESTAMP is taken
\* from the clock of the collector's host, which is ahead of the clock of
\* the worker by one of skews
Start(skews) ==
    /\ col.pc = "off"
    /\ col.cycle < MaxCycles
    /\ now' = now + OneHour
    /\ \E skew \in skews :
         col' = [col EXCEPT !.pc = "measure", !.cycle = col.cycle + 1,
                            !.timestamp = TsString(now + OneHour + skew, 0),
                            !.entry = <<>>]
    /\ UNCHANGED <<store, req, readVars, buf>>

\* the tests run, the entry is assembled and saved to the local log; the
\* buffer directory is listed
Measure ==
    /\ col.pc = "measure"
    /\ col' = Proceed([col EXCEPT !.entry = <<BaseEntry(col.timestamp)>>,
                                  !.todo = Glob(buf)])
    /\ UNCHANGED <<store, req, now, readVars, buf>>

\* a command of the tests or of the assembly fails: set -e ends the script
MeasureFails ==
    /\ col.pc = "measure"
    /\ col' = [col EXCEPT !.pc = "off"]
    /\ UNCHANGED <<store, req, now, readVars, buf>>

\* one turn of the loop of upload(): curl, the case of its code, and then
\* the return with what the script does next, or the sleep
AttemptWith(faults) ==
    /\ col.pc \in {"flush", "current"}
    /\ \E fault \in faults :
         LET answer == Curl(store, Arr(col.file.batch), fault)
             codes == Append(col.codes, answer.code)
         IN  /\ store' = answer.table
             /\ IF Delivered(answer.code)
                THEN /\ col' = Proceed([col EXCEPT !.last =
                             [file |-> col.file, codes |-> codes,
                              waits |-> col.waits, ret |-> 0]])
                     /\ buf' = IF col.file.buffered
                               THEN Remove(buf, col.file) ELSE buf
                     /\ now' = now
                ELSE IF col.attempt + 1 <= MAX_UPLOAD_RETRIES
                THEN /\ col' = [col EXCEPT
                             !.codes = codes,
                             !.waits = IF Sleeps(col.attempt)
                                       THEN Append(col.waits, col.backoff)
                                       ELSE col.waits,
                             !.backoff = NextBackoff(col.backoff),
                             !.attempt = col.attempt + 1]
                     /\ buf' = buf
                     /\ now' = IF Sleeps(col.attempt)
                               THEN now + col.backoff ELSE now
                ELSE /\ col' = Proceed([col EXCEPT !.last =
                             [file |-> col.file, codes |-> codes,
                              waits |-> IF Sleeps(col.attempt)
                                        THEN Append(col.waits, col.backoff)
                                        ELSE col.waits,
                              ret |-> 1]])
                     /\ buf' = Copy(buf, col.file,
                                    IF Sleeps(col.attempt)
                                    THEN now + col.backoff ELSE now)
                     /\ now' = IF Sleeps(col.attempt)
                               THEN now + col.backoff ELSE now
    /\ UNCHANGED <<req, readVars>>

\* one turn of the loop with any of the faults
Attempt == AttemptWith(Faults)

\* the server clock advances
Tick ==
    /\ now < Now0 + MaxTicks
    /\ now' = now + 1
    /\ UNCHANGED <<store, req, readVars, sendVars>>

Init ==
    /\ store = <<>>
    /\ req = [r \in Requests |-> Idle]
    /\ now = Now0
    /\ qry = NoQuery
    /\ cache = {}
    /\ hlth = NoHealth
    /\ col = Off
    /\ buf = {}


(***************************************************************************)
(* Spec: the requests run concurrently over batches of well-formed entries *)
(* with two timestamps, and of an entry with an unparsable one.            *)
(***************************************************************************)
T1 == TsString(Now0, 0)
T2 == TsString(Now0 - 60, 0)
Unparsable == TsString(NaN, 0)

Pool == {BaseEntry(T1), BaseEntry(T2), BaseEntry(Unparsable)}

Next ==
    \E r \in Requests :
        \/ Receive(r, Pool)
        \/ \E i \in 1..MaxBatchLen : Lookup(r, i)
        \/ \E i \in 1..MaxBatchLen : LookupFails(r, i)
        \/ Decide(r)
        \/ Commit(r)
        \/ CommitFails(r)

Spec == Init /\ [][Next]_vars


(***************************************************************************)
(* Properties of Spec.                                                     *)
(***************************************************************************)
RowsBy(r) == {i \in 1..Len(store) : store[i].by = r}
RowsWith(timestamp) == {i \in 1..Len(store) : store[i].timestamp = timestamp}
Done(r) == req[r].pc = "done"
\* the request passed the duplicate check: every lookup found no row
PassedDuplicateCheck(r) ==
    /\ req[r].checks # <<>>
    /\ \A i \in 1..Len(req[r].checks) : req[r].checks[i] = 0
StoreFault(r) == req[r].cause \in {"lookup", "fault"}

\* C1: no two persisted records of network_logs share a timestamp, whatever
\* the requests and their interleaving.
C1_UniqueTimestamps ==
    \A i, j \in 1..Len(store) :
        i # j => store[i].timestamp # store[j].timestamp

\* two requests raced on one timestamp, both passed the duplicate check and
\* both were answered, one of them having inserted the row
C1_Witness ==
    \E r1, r2 \in Requests :
        /\ r1 # r2 /\ Done(r1) /\ Done(r2)
        /\ PassedDuplicateCheck(r1) /\ PassedDuplicateCheck(r2)
        /\ req[r1].batch = req[r2].batch
        /\ req[r1].status = 200 /\ req[r2].cause = "unique"
        /\ RowsBy(r1) # {}

\* C2: when two requests carrying the same not-yet-persisted timestamp both
\* pass the duplicate check, one commits and the other, refused at commit by
\* the uniqueness constraint, is answered 409 (not 500).
C2_RaceLoserAnswered409 ==
    \A r1, r2 \in Requests :
        ( /\ r1 # r2 /\ Done(r1) /\ Done(r2)
          /\ PassedDuplicateCheck(r1) /\ PassedDuplicateCheck(r2)
          /\ Len(req[r1].batch) = 1 /\ req[r1].batch = req[r2].batch
          /\ ~StoreFault(r1) /\ ~StoreFault(r2) )
        => {req[r1].status, req[r2].status} = {200, 409}

\* C3: the same valid single-entry batch submitted twice in sequence: the
\* first request is answered 200 with inserted = 1, the second 409, the
\* second inserts nothing and one record is persisted.
C3_IdempotentRetry ==
    \A r1, r2 \in Requests :
        ( /\ r1 # r2 /\ Done(r2) /\ r1 \in req[r2].after
          /\ Len(req[r1].batch) = 1 /\ req[r2].batch = req[r1].batch
          /\ isValidEntry(req[r1].batch[1], req[r1].at)
          /\ isValidEntry(req[r2].batch[1], req[r2].at)
          /\ ~StoreFault(r1) /\ ~StoreFault(r2) )
        => /\ req[r1].status = 200 /\ req[r1].count = 1
           /\ req[r2].status = 409
           /\ RowsBy(r2) = {}
           /\ Cardinality(RowsWith(req[r1].batch[1].timestamp)) = 1

C3_Witness ==
    \E r1, r2 \in Requests :
        /\ r1 # r2 /\ Done(r2) /\ r1 \in req[r2].after
        /\ Len(req[r1].batch) = 1 /\ req[r2].batch = req[r1].batch
        /\ req[r1].status = 200 /\ req[r2].status = 409
        /\ Len(store) = 1

\* C4: a batch holding at least one entry that fails validation is answered
\* 400 and none of its entries is persisted, wherever the invalid entry is.
C4_InvalidEntryRejectsBatch ==
    \A r \in Requests :
        ( /\ req[r].pc # "idle"
          /\ \E i \in 1..Len(req[r].batch) : ~isValidEntry(req[r].batch[i], req[r].at) )
        => /\ req[r].status = 400
           /\ req[r].count =
                 Cardinality({i \in 1..Len(req[r].batch) :
                                 ~isValidEntry(req[r].batch[i], req[r].at)})
           /\ RowsBy(r) = {}
           /\ \A i \in 1..Len(store) : store[i].timestamp.t # NaN

\* a batch whose second entry is the invalid one was rejected while the
\* store held a record
C4_Witness ==
    \E r \in Requests :
        /\ Done(r) /\ req[r].status = 400 /\ Len(req[r].batch) = 2
        /\ isValidEntry(req[r].batch[1], req[r].at)
        /\ ~isValidEntry(req[r].batch[2], req[r].at)
        /\ Len(store) > 0

\* the entries of the batch whose timestamp is among the persisted ones
Existing(batch, persisted) ==
    {i \in 1..Len(batch) : batch[i].timestamp \in persisted}

\* C5: a validated batch with a timestamp that already exists in the store
\* is rejected as a whole with 409: none of its entries is inserted, and the
\* duplicate count is the number of its entries whose timestamp exists (at
\* least those existing when the request arrived, at most those existing
\* when it is answered).
C5_DuplicateRejectsBatch ==
    \A r \in Requests :
        /\ ( /\ Done(r) /\ req[r].status # 400 /\ req[r].cause # "lookup"
             /\ Existing(req[r].batch, req[r].pre) # {} )
           => req[r].status = 409
        /\ ( Done(r) /\ req[r].status = 409 )
           => /\ RowsBy(r) = {}
              /\ req[r].count >= Cardinality(Existing(req[r].batch, req[r].pre))
              /\ req[r].count <= Cardinality(Existing(req[r].batch, Persisted(store)))
              /\ req[r].count > 0

\* a batch of a new and an existing timestamp was rejected, the new one not
\* inserted
C5_Witness ==
    \E r \in Requests :
        /\ Done(r) /\ req[r].status = 409 /\ Len(req[r].batch) = 2
        /\ req[r].count = 1
        /\ req[r].batch[1].timestamp \notin Persisted(store)
        /\ req[r].batch[2].timestamp \in req[r].pre

\* C6: the commit of a batch is atomic: at any time a request has inserted
\* none or all of the rows of its batch, and a request whose commit the
\* store refused or failed has inserted none and is answered 500.
C6_AtomicCommit ==
    \A r \in Requests :
        /\ Cardinality(RowsBy(r)) \in {0, Len(req[r].batch)}
        /\ ( Done(r) /\ req[r].cause \in {"unique", "check", "fault"} )
           => ( RowsBy(r) = {} /\ req[r].status = 500 )
        /\ ( Done(r) /\ req[r].status = 200 )
           => Cardinality(RowsBy(r)) = Len(req[r].batch)

\* the store refused the second insert of a batch whose first insert it
\* could take
C6_Witness ==
    \E r \in Requests :
        /\ Done(r) /\ req[r].cause = "unique" /\ Len(req[r].batch) = 2
        /\ req[r].batch[1].timestamp \notin Persisted(store)
        /\ RowsBy(r) = {}


(***************************************************************************)
(* SpecV: one request over batches of entries that differ from a           *)
(* well-formed entry in one member, while the server clock advances.       *)
(***************************************************************************)
\* instants around the two ends of the window of isValidTimestamp
Instants ==
    {Now0 - OneYear - 1, Now0 - OneYear, Now0 - OneYear + 1, Now0,
     Now0 + OneHour, Now0 + OneHour + 1, Now0 + OneHour + MaxTicks + 1}

Timestamps ==
    {TsString(t, 0) : t \in Instants} \cup {Unparsable, TsNumber(Now0)}

NoId == Endpoint(JsUndef, JsStr(10), JsNum(0))
EmptyName == Endpoint(JsStr(2), JsStr(0), JsNum(0))
Loss150 == Endpoint(JsStr(2), JsStr(10), JsNum(150))

Variants ==
    LET e == BaseEntry(T1)
    IN  {[e EXCEPT !.k = "null"],
         [e EXCEPT !.networkquality = NonObj("undefined")],
         [e EXCEPT !.networkquality = NonObj("null")],
         [e EXCEPT !.networkquality = NonObj("string")],
         [e EXCEPT !.networkquality = Obj(NqFields(JsNum(-5), JsNum(20), JsNum(1000)))],
         [e EXCEPT !.networkquality = Obj(NqFields(JsNull, JsNull, JsNull))],
         [e EXCEPT !.speedtest = NonObj("undefined")],
         [e EXCEPT !.speedtest = NonObj("null")],
         [e EXCEPT !.speedtest = NonObj("string")],
         [e EXCEPT !.speedtest = Obj(StFields(JsNum(90), JsNum(10), JsNum(-5)))],
         [e EXCEPT !.ping_results = NonArr("undefined")],
         [e EXCEPT !.ping_results = Arr(<<NoId>>)],
         [e EXCEPT !.curl_results = Arr(<<EmptyName>>)],
         [e EXCEPT !.ping_results = Arr(<<Loss150>>)],
         [e EXCEPT !.dns_results = NonArr("object")],
         [e EXCEPT !.mtr_results = NonArr("null")]}

PoolV == {BaseEntry(ts) : ts \in Timestamps} \cup Variants

\* n entries that fail validation
Rejects(n) == [i \in 1..n |-> BaseEntry(Unparsable)]

\* the bodies at the ends of the checks of the body
EdgeBodies ==
    {InvalidJson, NonArr("object"), NonArr("null"), Arr(<<>>)} \cup
    {Arr(Rejects(n)) : n \in {MAX_BATCH_SIZE - 1, MAX_BATCH_SIZE, MAX_BATCH_SIZE + 1}}

Client == "a"

NextV ==
    \/ Receive(Client, PoolV)
    \/ ReceiveBody(Client, EdgeBodies)
    \/ \E i \in 1..MaxBatchLen : Lookup(Client, i)
    \/ \E i \in 1..MaxBatchLen : LookupFails(Client, i)
    \/ Decide(Client)
    \/ Commit(Client)
    \/ CommitFails(Client)
    \/ Tick

SpecV == Init /\ [][NextV]_vars


(***************************************************************************)
(* Properties of SpecV.                                                    *)
(***************************************************************************)
Received(r) == req[r].pc # "idle"
Entries(r) == {req[r].batch[i] : i \in 1..Len(req[r].batch)}
Elements(a) == {a.items[j] : j \in 1..Len(a.items)}
EndpointArrays(e) ==
    {e.ping_results, e.curl_results, e.dns_results, e.mtr_results}

Negative(x) == x.k = "number" /\ x.v < 0
NotPercent(x) == x.k = "number" /\ (x.v < 0 \/ x.v > 100)

\* the entry holds a field outside its bound
OutOfRange(e) ==
    \/ \E x \in {e.networkquality.f.download_mbps, e.networkquality.f.upload_mbps,
                 e.networkquality.f.responsiveness_rpm,
                 e.speedtest.f.download_mbps, e.speedtest.f.upload_mbps,
                 e.speedtest.f.ping_ms} : Negative(x)
    \/ \E x \in Elements(e.ping_results) : NotPercent(x.packet_loss_percent)

\* the row holds a value outside its bound
RowOutOfRange(row) ==
    \/ \E x \in {row.nq_download_mbps, row.nq_upload_mbps, row.nq_responsiveness_rpm,
                 row.st_download_mbps, row.st_upload_mbps, row.st_ping_ms} :
          Negative(x)
    \/ \E j \in 1..Len(row.ping_results.text) :
          NotPercent(row.ping_results.text[j].packet_loss_percent)

\* C7: an upload with a field outside its bound (a negative rate, latency or
\* time, a packet loss outside [0,100]) is answered 400, and no persisted
\* record holds an out-of-range value.
C7_RangeEnforced ==
    /\ \A r \in Requests :
          ( Done(r) /\ ~StoreFault(r) /\ \E e \in Entries(r) : e.k = "object" /\ OutOfRange(e) )
          => req[r].status = 400
    /\ \A i \in 1..Len(store) : ~RowOutOfRange(store[i])

\* C8: an upload with an entry whose networkquality or speedtest is not an
\* object (absent, null, a string) is answered 400 and persists nothing.
C8_MissingObjectIs400 ==
    \A r \in Requests :
        ( Done(r) /\ ~StoreFault(r) /\ \E e \in Entries(r) :
              /\ e.k = "object"
              /\ (e.networkquality.k # "object" \/ e.speedtest.k # "object") )
        => ( req[r].status = 400 /\ RowsBy(r) = {} )

NonEmptyString(x) == x.k = "string" /\ x.v > 0

\* C9: an upload with an element of ping_results, curl_results, dns_results
\* or mtr_results whose id or name is not a non-empty string is answered 400.
C9_EndpointIdentityRequired ==
    \A r \in Requests :
        ( Done(r) /\ ~StoreFault(r) /\ \E e \in Entries(r) :
              /\ e.k = "object"
              /\ \E a \in EndpointArrays(e) : \E x \in Elements(a) :
                    ~(NonEmptyString(x.id) /\ NonEmptyString(x.name)) )
        => req[r].status = 400

\* the timestamp string denotes an instant t with
\* clock - 365 days <= t <= clock + 1 hour
InWindow(timestamp, clock) ==
    /\ timestamp.t # NaN
    /\ clock - 365 * 86400 <= timestamp.t
    /\ timestamp.t <= clock + 3600

\* the entry is well formed, whatever its timestamp string
WellFormed(e) == e.timestamp.k = "string" /\ e = BaseEntry(e.timestamp)

\* C10: a timestamp string is accepted exactly when it parses to an instant
\* of [now - 365 days, now + 1 hour], both ends included, now being the
\* server clock at validation: a batch with an unparsable or outside
\* timestamp is answered 400, a batch of well-formed entries with timestamps
\* of the window is not.
C10_TimestampWindow ==
    \A r \in Requests :
        Received(r) =>
          /\ ( \E e \in Entries(r) :
                  /\ e.k = "object" /\ e.timestamp.k = "string"
                  /\ ~InWindow(e.timestamp, req[r].at) )
             => req[r].status = 400
          /\ ( /\ Entries(r) # {}
               /\ \A e \in Entries(r) :
                     WellFormed(e) /\ InWindow(e.timestamp, req[r].at) )
             => req[r].status # 400

\* after the clock advanced, a batch with a timestamp on each end of the
\* window was accepted and inserted
C10_Witness ==
    \E r \in Requests :
        /\ Done(r) /\ req[r].status = 200 /\ Len(req[r].batch) = 2
        /\ req[r].batch[1].timestamp.t = req[r].at + 3600
        /\ req[r].batch[2].timestamp.t = req[r].at - 365 * 86400
        /\ req[r].at > Now0


\* the request was answered before any entry was validated or any access to
\* the store was made
RejectedAtOnce(r) ==
    /\ req[r].pc = "done" /\ req[r].status = 400
    /\ req[r].count = 0 /\ req[r].checks = <<>> /\ RowsBy(r) = {}

\* C11: a body that is not an array, an empty array and an array of more
\* than 100 entries are each answered 400, with a reason of their own that is
\* not the reason of an invalid entry, before any entry is validated and
\* any storage access; an array of 100 entries passes the size check (and
\* is answered by the validation of its entries).
C11_BodyChecks ==
    \A r \in Requests :
        Received(r) =>
          /\ ( req[r].root \notin {"array", "invalid json"} )
             => ( RejectedAtOnce(r) /\ req[r].error = "Request body must be an array" )
          /\ ( req[r].root = "array" /\ Len(req[r].batch) = 0 )
             => ( RejectedAtOnce(r)
                  /\ req[r].error = "Request body must contain at least one entry" )
          /\ ( req[r].root = "array" /\ Len(req[r].batch) > 100 )
             => ( RejectedAtOnce(r) /\ req[r].error = "Batch size exceeds maximum" )
          /\ ( /\ req[r].root = "array" /\ Len(req[r].batch) \in 1..100
               /\ \E e \in Entries(r) : ~isValidEntry(e, req[r].at) )
             => ( /\ req[r].status = 400 /\ req[r].error = "Invalid entry format"
                  /\ req[r].count > 0 )
          /\ ( /\ req[r].root = "array" /\ Len(req[r].batch) \in 1..100
               /\ \A e \in Entries(r) : isValidEntry(e, req[r].at) )
             => req[r].status # 400

\* an array of 101 entries was rejected for its size
C11_Witness ==
    \E r \in Requests :
        /\ Received(r) /\ req[r].root = "array" /\ Len(req[r].batch) = 101
        /\ req[r].status = 400 /\ req[r].error = "Batch size exceeds maximum"


\* C12: a request answered 200 has every entry of its batch persisted: the
\* step that answers it adds exactly as many rows as the batch has entries,
\* one for each entry, and the answer's inserted is the length of the batch.
C12_SuccessPersistsAll ==
    [][ \A r \in Requests :
          ( req[r].pc # "done" /\ req'[r].pc = "done" /\ req'[r].status = 200 )
          => LET batch == req'[r].batch
             IN  /\ req'[r].count = Len(batch)
                 /\ Len(store') = Len(store) + Len(batch)
                 /\ Rows(store) \subseteq Rows(store')
                 /\ \A i \in 1..Len(batch) :
                       \E row \in Rows(store') \ Rows(store) :
                           /\ row.by = r
                           /\ row.timestamp = batch[i].timestamp
                 /\ Cardinality(Rows(store') \ Rows(store)) = Len(batch) ]_vars

\* a batch of two entries was answered 200 with both of its rows in the store
C12_Witness ==
    \E r \in Requests :
        /\ Done(r) /\ req[r].status = 200 /\ req[r].count = 2
        /\ Len(req[r].batch) = 2 /\ Cardinality(RowsBy(r)) = 2



(***************************************************************************)
(* SpecQ: the requests upload batches of one entry while GET /api/logs and *)
(* GET /health are answered.                                               *)
(***************************************************************************)
\* an instant two minutes before T1 as a collector one hour east of UTC
\* writes it: the string shows a later time of day than that of T1
TEast == TsString(Now0 - 120, 1)

\* an entry of T1 with other measurements
OtherEntry ==
    [BaseEntry(T1) EXCEPT
        !.networkquality = Obj(NqFields(JsNum(50), JsNum(10), JsNum(500)))]

PoolQ == {BaseEntry(T1), OtherEntry, BaseEntry(T2), BaseEntry(TEast)}
BodiesQ == {Arr(<<e>>) : e \in PoolQ}

\* the values of ?limit=
ParamsQ ==
    {NoParam, Param(<<>>), Param(<<"a", "b", "c">>),
     Param(<<"1", "2", "a", "b", "c">>), Param(<<"0">>), Param(<<"-", "5">>),
     Param(<<"1">>), Param(<<"2">>), Param(<<"9", "9", "9", "9", "9", "9">>)}

NextQ ==
    \/ \E r \in Requests :
        \/ ReceiveBody(r, BodiesQ)
        \/ Lookup(r, 1)
        \/ LookupFails(r, 1)
        \/ Decide(r)
        \/ Commit(r)
        \/ CommitFails(r)
    \/ GetLogs(ParamsQ)
    \/ Health

SpecQ == Init /\ [][NextQ]_vars

\* the rows of the answer
Returned == {qry.rows[i] : i \in 1..Len(qry.rows)}

\* the instant of row x is later than that of row y
Later(x, y) == DateParse(x.timestamp) > DateParse(y.timestamp)

\* C13: the rows of GET /api/logs descend by timestamp: of two returned
\* records the one with the later timestamp comes first, and no record of
\* the store that is later than a returned record is left out.
C13_MostRecentFirst ==
    qry.status = 200 =>
        /\ \A i, j \in 1..Len(qry.rows) :
              Later(qry.rows[i], qry.rows[j]) => i < j
        /\ \A x \in qry.seen \ Returned :
              \A y \in Returned : ~Later(x, y)

\* the integer values of ?limit= of ParamsQ
IntegerParams ==
    {[s |-> <<"0">>, L |-> 0], [s |-> <<"-", "5">>, L |-> 0 - 5],
     [s |-> <<"1">>, L |-> 1], [s |-> <<"2">>, L |-> 2],
     [s |-> <<"9", "9", "9", "9", "9", "9">>, L |-> 999999]}

Clamp(L) == IF L < 1 THEN 1 ELSE IF L > 10000 THEN 10000 ELSE L

\* C14: an integer limit L is not rejected and gives the effective limit
\* min(max(L, 1), 10000); an omitted limit gives 1000; an answer never
\* holds more rows than the effective limit.
C14_LimitClamped ==
    qry.status # 0 =>
        /\ \A c \in IntegerParams :
              qry.param = Param(c.s)
              => ( qry.status # 400 /\ qry.limit = <<Clamp(c.L)>> )
        /\ qry.param = NoParam
           => ( qry.status # 400 /\ qry.limit = <<1000>> )
        /\ qry.status = 200 => Len(qry.rows) <= qry.limit[1]

\* limit=0 was answered with one row of a store of two
C14_Witness ==
    /\ qry.status = 200 /\ qry.param = Param(<<"0">>)
    /\ Len(qry.rows) = 1 /\ Cardinality(qry.seen) = 2

\* C15: a limit that is not a number is answered 400 without a read of the
\* store, the empty string and a string with a numeric prefix included
\* (an answer 500 of a failing store set aside).
C15_NonNumericLimitIs400 ==
    ( /\ qry.param \in {Param(<<>>), Param(<<"a", "b", "c">>),
                         Param(<<"1", "2", "a", "b", "c">>)}
      /\ qry.status # 0 /\ qry.status # 500 )
    => ( qry.status = 400 /\ ~qry.read )

\* C17: no request changes or deletes a persisted record: every step
\* leaves the rows of the store in place and unchanged, and a step of
\* GET /api/logs or GET /health leaves the whole store unchanged.
C17_NoMutation ==
    [][ /\ Len(store') >= Len(store)
        /\ \A i \in 1..Len(store) : store'[i] = store[i]
        /\ (qry' # qry \/ hlth' # hlth) => store' = store ]_vars

\* a record is persisted, a second upload of its timestamp was turned away
\* and the record was read and the health asked afterwards
C17_Witness ==
    /\ \E r \in Requests : Done(r) /\ req[r].status \in {409, 500}
                           /\ req[r].batch[1].timestamp \in Persisted(store)
                           /\ RowsBy(r) = {}
    /\ qry.status = 200 /\ Returned = Rows(store) /\ Returned # {}
    /\ hlth.status = 200



(***************************************************************************)
(* SpecC: one upload, and GET /api/logs answered by the handler with the   *)
(* cache and by the handler without, while a few minutes pass.             *)
(***************************************************************************)
BodiesC ==
    {Arr(<<BaseEntry(T1)>>), Arr(<<BaseEntry(T2)>>),
     Arr(<<BaseEntry(T1), BaseEntry(T2)>>)}

ParamsC == {NoParam, Param(<<"1">>)}

\* the instants around the expiry of a response cached at Now0
Expiry ==
    {Now0 + CACHE_TTL_SECONDS - 1, Now0 + CACHE_TTL_SECONDS,
     Now0 + CACHE_TTL_SECONDS + 1}

NextC ==
    \/ ReceiveBody(Client, BodiesC)
    \/ \E i \in 1..MaxBatchLen : Lookup(Client, i)
    \/ Decide(Client)
    \/ Commit(Client)
    \/ GetLogs(ParamsC)
    \/ GetLogsCached(ParamsC)
    \/ Evict
    \/ Advance(Expiry)

SpecC == Init /\ [][NextC]_vars

\* the place of a row among the rows of the store, the latest first
Rank(row) == 1 + Cardinality({x \in Rows(store) : Later(x, row)})

\* C16: an answer of GET /api/logs comes from the cache only when it was
\* read from the store for the same effective limit less than 60 seconds
\* before; any other answer is read from the store at the request; so a
\* record committed more than 60 seconds before a request is in its answer
\* when it is among the limit most recent records.
C16_CacheFreshness ==
    qry.status = 200 =>
        /\ qry.hit => ( /\ qry.at - qry.readAt < 60
                        /\ qry.from = qry.limit
                        /\ ~qry.read )
        /\ ~qry.hit => ( qry.read /\ qry.readAt = qry.at )
        /\ \A row \in Rows(store) :
              ( row.created_at + 60 < qry.at /\ Rank(row) <= qry.limit[1] )
              => row \in Returned

\* an answer came from the cache 59 seconds after it was read, and another
\* request for the same rows would read the store a second later
C16_Witness ==
    /\ qry.status = 200 /\ qry.hit /\ qry.at - qry.readAt = 59
    /\ Rows(store) # {}



(***************************************************************************)
(* SpecS: the collector runs its cycles against the worker, while requests *)
(* are lost, answers are lost and the store fails.                         *)
(***************************************************************************)
\* the clocks of the collector and of the worker agree
InStep == {0}

NextS ==
    \/ Start(InStep)
    \/ Measure
    \/ MeasureFails
    \/ Attempt

SpecS == Init /\ [][NextS]_vars


\* the attempts of u that were not answered 200 or 409
Failed(u) == {i \in 1..Len(u.codes) : u.codes[i] \notin {200, 409}}

\* the upload in progress
Uploading == [file |-> col.file, codes |-> col.codes, waits |-> col.waits,
              ret |-> 0 - 1]

\* C18: an upload makes at most 3 attempts, waits 2 after the first failed
\* attempt and 4 after the second and not after the third, and ends at the
\* first attempt answered 200 or 409 (returning 0), or after three failed
\* attempts (returning 1).
C18_BoundedBackoff ==
    \A u \in {Uploading, col.last} :
        /\ Len(u.codes) <= 3
        /\ \A i \in 1..Len(u.codes) : i < Len(u.codes) => i \in Failed(u)
        /\ u.waits = SubSeq(<<2, 4>>, 1,
                            IF Cardinality(Failed(u)) > 2
                            THEN 2 ELSE Cardinality(Failed(u)))
        /\ u.ret = 0 => ( u.codes # <<>> /\ Len(u.codes) \notin Failed(u) )
        /\ u.ret = 1 => Failed(u) = 1..3
        /\ u.ret = 0 - 1 => Failed(u) = 1..Len(u.codes)

\* an upload failed three times, after waits of 2 and 4, and another was
\* answered at its third attempt
C18_Witness ==
    /\ col.last.ret = 1 /\ col.last.waits = <<2, 4>>
    /\ Len(col.last.codes) = 3
    /\ col.waits = <<2, 4>> /\ col.attempt = 3

\* C19: an upload answered 409 returns success, writes no buffer file, and
\* the buffer file it was called with is removed.
C19_DuplicateIsDelivered ==
    [][ \A n \in 1..3 :
          ( /\ Len(col.codes) = n - 1
            /\ col'.last # col.last
            /\ Len(col'.last.codes) = n
            /\ col'.last.codes[n] = 409 )
          => /\ col'.last.ret = 0
             /\ col'.last.file = col.file
             /\ buf' \subseteq buf
             /\ col.file.buffered => ( col.file \in buf /\ buf' = buf \ {col.file} )
             /\ ~col.file.buffered => buf' = buf ]_vars

\* a buffered batch the store already held was answered 409 at its
\* re-delivery, and its file is gone
C19_Witness ==
    /\ col.last.ret = 0 /\ col.last.file.buffered
    /\ col.last.codes # <<>>
    /\ col.last.codes[Len(col.last.codes)] = 409
    /\ col.last.file \notin buf
    /\ \A i \in 1..Len(col.last.file.batch) :
          col.last.file.batch[i].timestamp \in Persisted(store)

\* an upload that returns 1 leaves its batch in a file of the buffer
BufferedOnExhaustion ==
    ( col'.last # col.last /\ col'.last.ret = 1 )
    => \E f \in buf' : f.batch = col.file.batch

\* a buffer file goes only in the step in which its upload is answered 200
\* or 409
RemovedOnDelivery ==
    \A f \in buf \ buf' :
        /\ col.file = f
        /\ col'.last.file = f /\ col'.last.ret = 0
        /\ col'.last.codes[Len(col'.last.codes)] \in {200, 409}

\* when the tests of a cycle run, no buffered batch waits for its upload
FlushedBeforeMeasurement ==
    ( col.pc = "measure" /\ col'.entry # <<>> ) => buf = {}

\* C20: after three failed attempts the batch is in the buffer; in the next
\* cycle the buffered batches are uploaded before the new measurement is
\* attempted; a buffer file is removed only after its upload was answered
\* 200 or 409.
C20_BufferAndRedeliver ==
    [][ BufferedOnExhaustion /\ RemovedOnDelivery /\ FlushedBeforeMeasurement ]_vars



(***************************************************************************)
(* SpecK: the collector runs its cycles on a host whose clock is more     *)
(* than an hour ahead of the worker's.                                     *)
(***************************************************************************)
Skews == {OneHour + 1}

NextK ==
    \/ Start(Skews)
    \/ Measure
    \/ MeasureFails
    \/ Attempt

SpecK == Init /\ [][NextK]_vars

\* C21: a batch answered 400 is discarded: the 400 is the last attempt of
\* its upload, the upload has returned and no buffer file holds the batch;
\* only an answer 500 and an answer that did not arrive lead to another
\* attempt and to the buffer.
C21_MalformedDiscarded ==
    \A u \in {Uploading, col.last} :
        /\ \A i \in 1..Len(u.codes) :
              u.codes[i] = 400
              => ( /\ i = Len(u.codes)
                   /\ u.ret # 0 - 1
                   /\ \A f \in buf : f.batch # u.file.batch )
        /\ \A i \in 1..Len(u.codes) :
              i < Len(u.codes) => u.codes[i] \in {0, 500}



(***************************************************************************)
(* SpecF: requests of every method and path go through fetch.              *)
(***************************************************************************)
Methods == {"GET", "POST", "PUT", "OPTIONS"}
Paths == {"/upload", "/api/logs", "/health", "/"}
BodiesF == {Arr(<<BaseEntry(T1)>>), Arr(<<BaseEntry(Unparsable)>>), InvalidJson}

RequestsF ==
    [method : Methods, path : Paths,
     xid : {NoRequestId, ClientRequestId(Now0)},
     body : BodiesF, limit : {NoParam}]

NextF ==
    \E r \in Requests :
        \/ Fetch(r, RequestsF)
        \/ Lookup(r, 1)
        \/ LookupFails(r, 1)
        \/ Decide(r)
        \/ Commit(r)
        \/ CommitFails(r)

SpecF == Init /\ [][NextF]_vars

\* C22: the request_id of an answer to an upload is the identifier the
\* client sent in the X-Request-ID header of the request.
C22_RequestIdEchoed ==
    \A r \in Requests :
        ( /\ Done(r) /\ req[r].path = "/upload" /\ req[r].method = "POST"
          /\ req[r].xid # NoRequestId )
        => req[r].request_id = req[r].xid

\* the request has the wrong method for its path
WrongMethod(r, others) ==
    \/ req[r].path = "/upload" /\ req[r].method \notin {"POST"} \cup others
    \/ req[r].path = "/api/logs" /\ req[r].method \notin {"GET"} \cup others

\* the step answers request r at once with the status, and neither reads
\* nor writes the store
AnsweredUntouched(r, status) ==
    /\ req'[r].pc = "done" /\ req'[r].status = status
    /\ req'[r].checks = <<>>
    /\ store' = store /\ qry' = qry /\ hlth' = hlth

\* C23 as stated: every request to /upload that is not a POST and every
\* request to /api/logs that is not a GET is answered 405, without a read
\* or a write of the store.
C23_WrongMethodIs405 ==
    [][\A r \in Requests :
          ( req[r].pc = "idle" /\ Received(r)' /\ WrongMethod(r, {})' )
          => AnsweredUntouched(r, 405)]_vars

\* C23 amended: every request to /upload that is neither a POST nor an
\* OPTIONS and every request to /api/logs that is neither a GET nor an
\* OPTIONS is answered 405; an OPTIONS request to either is answered 200;
\* neither reads or writes the store.
C23_WrongMethodIs405UnlessOptions ==
    [][\A r \in Requests :
          /\ ( req[r].pc = "idle" /\ Received(r)'
               /\ WrongMethod(r, {"OPTIONS"})' )
             => AnsweredUntouched(r, 405)
          /\ ( req[r].pc = "idle" /\ Received(r)' /\ WrongMethod(r, {})'
               /\ req'[r].method = "OPTIONS" )
             => AnsweredUntouched(r, 200)]_vars

\* a PUT to /api/logs was answered 405 while the store held a record
C23_Witness ==
    \E r \in Requests :
        /\ Done(r) /\ req[r].path = "/api/logs" /\ req[r].method = "PUT"
        /\ req[r].status = 405 /\ store # <<>> /\ qry = NoQuery

\* C24: /health is answered 200 exactly when the database check is healthy
\* and 503 otherwise: checks.database is never "healthy" in a 503 and never
\* "unhealthy" in a 200.
C24_HealthStatusFollowsProbe ==
    hlth # NoHealth
    => /\ hlth.status \in {200, 503}
       /\ hlth.status = 200 <=> hlth.database = "healthy"

(***************************************************************************)
(* SpecL: the worker's own steps are taken whenever they can be: once every *)
(* promise of Promise.all is settled, handleUpload goes on.  Nothing makes  *)
(* the store answer a lookup or a commit, so those steps are not fair.      *)
(***************************************************************************)
SpecL == Init /\ [][Next]_vars /\ \A r \in Requests : WF_vars(Decide(r))

\* C25: every request is answered in the end, also when the store never
\* answers: a request waiting for the store is answered (with 500) once a
\* timeout expires.
C25_EveryRequestAnswered ==
    \A r \in Requests : Received(r) ~> Done(r)

(***************************************************************************)
(* SpecU: handleUpload of the first worker (part_003).  Its entries have    *)
(* the members networkquality, ping, curl and speedtest, each of them       *)
(* absent, an object without members ("empty") or the object the collector  *)
(* writes ("full"); its table has no UNIQUE column.                         *)
(***************************************************************************)
EntryV1(ts, nq, ping, curl, st) ==
    [k |-> "object", timestamp |-> ts, networkquality |-> nq, ping |-> ping,
     curl |-> curl, speedtest |-> st]

\* validateEntry of part_003: the members are there, whatever they hold
validateEntry(e) ==
    /\ e.k = "object"
    /\ e.timestamp.k = "string"
    /\ e.networkquality # "absent"
    /\ e.ping # "absent"
    /\ e.curl # "absent"
    /\ e.speedtest # "absent"

\* the message of the error entries.map(... .bind(...)) throws on an entry,
\* "" when it throws none: entry.ping.cloudflare.host and
\* entry.curl.us_dlsdemo.url read a member of undefined, and bind refuses
\* the undefined entry.networkquality.download_mbps
BindMessage(e) ==
    IF e.ping = "empty"
    THEN "Cannot read properties of undefined (reading 'host')"
    ELSE IF e.curl = "empty"
    THEN "Cannot read properties of undefined (reading 'url')"
    ELSE IF e.networkquality = "empty"
    THEN "D1_TYPE_ERROR: Type 'undefined' not supported for value 'undefined'"
    ELSE ""

\* messages of the errors env.DB.batch rejects with
StoreMessages ==
    {"D1_ERROR: no such table: network_logs: SQLITE_ERROR",
     "D1_ERROR: Network connection lost."}

\* a body that is empty or blank: !text || text.trim().length === 0
EmptyText == [k |-> "empty text", items |-> <<>>]

\* the row the INSERT of part_003 adds
InsertRowV1(e, r) == [timestamp |-> e.timestamp, by |-> r, created_at |-> now]

\* handleUpload of part_003 up to await env.DB.batch: the checks of the
\* body, then the statements are bound
UploadV1(r, bodies) ==
    /\ req[r].pc = "idle"
    /\ \E body \in bodies :
         LET q == [req[r] EXCEPT !.method = "POST", !.path = "/upload",
                                 !.at = now, !.pre = Persisted(store),
                                 !.root = body.k]
             invalidEntries == {i \in 1..Len(body.items) :
                                   ~validateEntry(body.items[i])}
             thrown == {i \in 1..Len(body.items) :
                           BindMessage(body.items[i]) # ""}
             first == CHOOSE i \in thrown : \A j \in thrown : i <= j
             message == BindMessage(body.items[first])
         IN  req' = [req EXCEPT ![r] =
                 IF body = EmptyText
                 THEN Answer(q, 400, "Empty request body", 0, "")
                 ELSE IF body = InvalidJson
                 THEN Answer(q, 400, "Invalid JSON format", 0, "")
                 ELSE IF body.k # "array"
                 THEN Answer(q, 400, "Expected array of entries", 0, "")
                 ELSE IF Len(body.items) = 0
                 THEN Answer(q, 400, "Empty array provided", 0, "")
                 ELSE IF invalidEntries # {}
                 THEN Answer(q, 400, "Invalid entry format",
                             Cardinality(invalidEntries), "")
                 ELSE IF thrown # {}
                 THEN [Answer(q, 500, "Database operation failed", 0, message)
                          EXCEPT !.details = message]
                 ELSE [q EXCEPT !.pc = "insert", !.batch = body.items]]
    /\ UNCHANGED <<store, now, readVars, sendVars>>

\* env.DB.batch resolves: every row is inserted
InsertV1(r) ==
    /\ req[r].pc = "insert"
    /\ store' = store \o [i \in 1..Len(req[r].batch) |->
                             InsertRowV1(req[r].batch[i], r)]
    /\ req' = [req EXCEPT ![r] = Answer(req[r], 200, "", Len(req[r].batch), "")]
    /\ UNCHANGED <<now, readVars, sendVars>>

\* env.DB.batch rejects: the catch answers with the message of the error
InsertFailsV1(r) ==
    /\ req[r].pc = "insert"
    /\ \E message \in StoreMessages :
         req' = [req EXCEPT ![r] =
             [Answer(req[r], 500, "Database operation failed", 0, message)
                 EXCEPT !.details = message]]
    /\ UNCHANGED <<store, now, readVars, sendVars>>

MembersV1 == {"absent", "empty", "full"}
EntriesV1 ==
    {EntryV1(ts, nq, ping, curl, "full") :
        ts \in {TsString(T1, 0), TsNumber(T1)},
        nq \in {"empty", "full"}, ping \in MembersV1, curl \in {"empty", "full"}}
BodiesV1 ==
    {EmptyText, InvalidJson, Arr(<<>>), NonArr("object")}
        \cup {Arr(<<e>>) : e \in EntriesV1}
        \cup {Arr(<<e, EntryV1(TsString(T1, 0), "full", "full", "full", "full")>>) :
                e \in EntriesV1}

NextU ==
    \E r \in Requests :
        \/ UploadV1(r, BodiesV1)
        \/ InsertV1(r)
        \/ InsertFailsV1(r)

SpecU == Init /\ [][NextU]_vars

\* C26: the body of a 500 answer does not depend on the internal error: two
\* requests that fail with different internal errors on the same route get
\* the same error and the same details text.
C26_ErrorBodyIndependent ==
    \A r1, r2 \in Requests :
        ( /\ Done(r1) /\ Done(r2)
          /\ req[r1].status = 500 /\ req[r2].status = 500
          /\ req[r1].path = req[r2].path )
        => ( /\ req[r1].error = req[r2].error
             /\ req[r1].details = req[r2].details )

\* C27: a 409 means "already delivered" for the whole batch: whenever an
\* upload is answered 409, every entry of its batch is persisted.
C27_ConflictMeansAllPersisted ==
    \A r \in Requests :
        ( Done(r) /\ req[r].status = 409 )
        => \A i \in 1..Len(req[r].batch) :
               req[r].batch[i].timestamp \in Persisted(store)

\* the batch of request r passed validation and holds one timestamp twice
Twin(r) ==
    \E i, j \in 1..Len(req[r].batch) :
        i # j /\ req[r].batch[i].timestamp = req[r].batch[j].timestamp

\* every lookup of request r counted no record
NoneCounted(r) ==
    /\ Len(req[r].checks) = Len(req[r].batch)
    /\ \A i \in 1..Len(req[r].checks) : req[r].checks[i] = 0

\* C28: a valid batch with the same timestamp in two of its entries, none
\* of them persisted when looked up, passes the duplicate check and fails
\* at commit: it is answered 500 by the catch of the batch, none of its rows
\* is persisted and it is never answered 200.
C28_TwinBatchFailsAtCommit ==
    \A r \in Requests :
        Twin(r)
        => /\ Done(r) => ( req[r].status # 200 /\ RowsBy(r) = {} )
           /\ ( Done(r) /\ NoneCounted(r) )
              => ( /\ req[r].status = 500
                   /\ req[r].cause \in {"unique", "fault"} )
           /\ req[r].pc = "commit" => NoneCounted(r)

\* a batch holding T1 twice went through its lookups with the store empty
\* and was refused by the UNIQUE column at commit
C28_Witness ==
    \E r \in Requests :
        /\ Done(r) /\ Twin(r) /\ NoneCounted(r)
        /\ req[r].pre = {} /\ req[r].cause = "unique" /\ req[r].status = 500
        /\ RowsBy(r) = {}

\* the step takes request r from stage from to stage to
Moves(r, from, to) == req[r].pc = from /\ req'[r].pc = to

\* the step answers request r with the status
Answers(r, status) == ~Done(r) /\ Done(r)' /\ req'[r].status = status

\* C29: the stages of an upload run in the order validation, duplicate
\* lookup, commit, and a rejection at one stage prevents the later ones: the
\* lookups are issued only for a batch that passed validation, the insert
\* only after every lookup counted no record; a request answered 400 issued
\* no lookup and no insert, a request answered 409 no insert; rows are
\* written by a request at commit only.
C29_StagesInOrder ==
    [][\A r \in Requests :
          /\ req'[r].pc = "lookup"
             => ( /\ req[r].pc \in {"idle", "lookup"}
                  /\ \A i \in 1..Len(req'[r].batch) :
                         isValidEntry(req'[r].batch[i], req'[r].at) )
          /\ req'[r].pc = "commit"
             => ( /\ req[r].pc \in {"lookup", "commit"}
                  /\ \A i \in 1..Len(req'[r].batch) : req'[r].checks[i] = 0 )
          /\ Answers(r, 400)
             => ( req[r].pc = "idle" /\ req'[r].checks = <<>>
                  /\ store' = store )
          /\ Answers(r, 409)
             => ( req[r].pc = "lookup" /\ store' = store )
          /\ RowsBy(r)' # RowsBy(r) => req[r].pc = "commit"]_vars

\* one request went through the three stages and its batch is stored; the
\* other was stopped at the duplicate lookup and left no row
C29_Witness ==
    \E r1, r2 \in Requests :
        /\ Done(r1) /\ req[r1].status = 200 /\ RowsBy(r1) # {}
        /\ Done(r2) /\ req[r2].status = 409 /\ RowsBy(r2) = {}
        /\ \E i \in 1..Len(req[r2].checks) : req[r2].checks[i] > 0

\* the entries of the batch of r whose timestamp was persisted at receipt
Known(r) ==
    {i \in 1..Len(req[r].batch) : req[r].batch[i].timestamp \in req[r].pre}

\* C30: the duplicate lookups of a batch are answered in any order and the
\* outcome does not depend on the order: while no other request writes, a
\* batch leaves the lookup stage with 409 and the number of its persisted
\* entries when it has one, and for the commit otherwise; when a single
\* lookup fails the request is answered 500 and none of its entries is
\* inserted, whatever the other lookups counted.
C30_LookupOrderIrrelevant ==
    [][\A r \in Requests :
          /\ ( /\ req[r].pc = "lookup" /\ req'[r].pc # "lookup"
               /\ req'[r].cause # "lookup"
               /\ Persisted(store) = req[r].pre )
             => IF Known(r) # {}
                THEN /\ Answers(r, 409)
                     /\ req'[r].count = Cardinality(Known(r))
                     /\ store' = store
                ELSE \/ req'[r].pc = "commit"
                     \/ Answers(r, 500) /\ req'[r].cause = "type"
          /\ ( Done(r)' /\ req'[r].cause = "lookup" )
             => ( req'[r].status = 500 /\ RowsBy(r)' = {} )]_vars

\* of the two lookups of a batch the second was answered first and counted
\* no record, then the first failed: 500, and no row of the batch
C30_Witness ==
    \E r \in Requests :
        /\ Done(r) /\ req[r].cause = "lookup" /\ req[r].status = 500
        /\ Len(req[r].checks) = 2
        /\ req[r].checks[1] = Pending /\ req[r].checks[2] = 0
        /\ RowsBy(r) = {}

(***************************************************************************)
(* SpecI: uploads whose timestamps denote one instant in two ways: as      *)
(* isp-speed.sh writes it (UTC, ending in Z) and as local time one hour    *)
(* east of UTC followed by its offset.                                     *)
(***************************************************************************)
T1East == TsString(Now0, 1)
PoolI == {BaseEntry(T1), BaseEntry(T1East), BaseEntry(T2)}

NextI ==
    \E r \in Requests :
        \/ Receive(r, PoolI)
        \/ \E i \in 1..MaxBatchLen : Lookup(r, i)
        \/ \E i \in 1..MaxBatchLen : LookupFails(r, i)
        \/ Decide(r)
        \/ Commit(r)
        \/ CommitFails(r)

SpecI == Init /\ [][NextI]_vars

\* C31: uniqueness is by instant: no two persisted records have timestamps
\* that denote the same instant, however the timestamps are written.
C31_UniqueByInstant ==
    \A i, j \in 1..Len(store) :
        i # j => DateParse(store[i].timestamp) # DateParse(store[j].timestamp)

\* C33: re-delivery keeps one buffered copy per undelivered batch: at the
\* end of a cycle no two files of the buffer hold the same batch, so the
\* files are at most as many as the distinct undelivered batches.
C33_OneCopyPerBatch ==
    col.pc = "off"
    => /\ \A f, g \in buf : f.batch = g.batch => f = g
       /\ Cardinality(buf) <= Cardinality({f.batch : f \in buf})

(***************************************************************************)
(* SpecA: the worker and the store fail during the first cycles and are     *)
(* available from the last cycle on; cron keeps starting the script and the *)
(* script, once started, runs on.                                           *)
(***************************************************************************)
\* the cycles in which requests can fail and the script can die
Outage == col.cycle < MaxCycles

NextA ==
    \/ Start(InStep)
    \/ Measure
    \/ Outage /\ MeasureFails
    \/ AttemptWith(IF Outage THEN Faults ELSE {"none"})

SpecA ==
    /\ Init /\ [][NextA]_vars
    /\ WF_vars(Start(InStep))
    /\ WF_vars(Measure)
    /\ WF_vars(AttemptWith({"none"}))

\* the answer that ended the last upload
LastCode(c) == c.last.codes[Len(c.last.codes)]

\* C32: once the worker and the store stay available and the cycles go on,
\* every buffered batch is delivered: the buffer becomes empty and stays
\* empty; a file leaves the buffer only when its upload was answered 200 or
\* 409, and then its timestamp is in the store once; a persisted timestamp
\* stays in the store once.
C32_BufferedEventuallyPersistedOnce ==
    /\ <>[](buf = {})
    /\ [][ /\ \A f \in buf \ buf' :
                /\ col'.last.file = f /\ col'.last.ret = 0
                /\ LastCode(col') \in {200, 409}
                /\ CheckDuplicate(store', f.batch[1].timestamp) = 1
           /\ \A i \in 1..Len(store) :
                CheckDuplicate(store', store[i].timestamp) = 1 ]_vars

\* a batch was handled while its answers were lost, was buffered, and in a
\* later cycle its file was answered 409 and removed: the buffer is empty
\* and the timestamp is in the store once
C32_Witness ==
    /\ col.last.file.buffered /\ col.last.ret = 0
    /\ col.last.codes = <<409>>
    /\ buf = {}
    /\ CheckDuplicate(store, col.last.file.batch[1].timestamp) = 1

====
